---- MODULE Spec2Model ----
(***************************************************************************)
(* Model of main.py of issue-explorer: one process run after another of    *)
(* main() -- download, load_cache, log_issues, log_commits, save_cache --  *)
(* over the files the script keeps in its data directory.                  *)
(***************************************************************************)
EXTENDS Integers, Sequences, FiniteSets, TLC

\* ---------------------------------------------------------------- bounds
MaxIssues == 3      \* longest issue list given to log_issues alone
MaxFetched == 1     \* longest issue list in the runs of the whole script
MaxMinute == 2      \* ISO timestamps range over minutes 0..MaxMinute
MaxRuns == 2        \* number of process runs in one behaviour

\* ------------------------------------------------------------ data types
NULL == [null |-> TRUE]             \* JSON null / Python None

\* An ISO-8601 text "1970-01-01T00:MM:00Z", reduced to its minute field.
IsoTimes == [min : 0..MaxMinute]

\* datetime.fromisoformat(s).timestamp(): seconds since the epoch.
Timestamp(iso) == iso.min * 60

\* The issue records `gh issue list --json ...` can return.
IssueRecords == [createdAt : IsoTimes \cup {NULL}, closedAt : IsoTimes \cup {NULL}]

RECURSIVE SeqsUpTo(_, _)
SeqsUpTo(S, n) ==
    IF n = 0 THEN {<<>>}
    ELSE LET shorter == SeqsUpTo(S, n - 1)
         IN  shorter \cup {Append(s, x) : s \in {t \in shorter : Len(t) = n - 1}, x \in S}

IssueLists == SeqsUpTo(IssueRecords, MaxIssues)

\* The records fetched in the runs of the whole script: two instants suffice
\* there, the cache being what those runs are about.
FetchedTimes == {[min |-> 0], [min |-> 1]}
FetchedRecords ==
    [createdAt : FetchedTimes \cup {NULL}, closedAt : FetchedTimes \cup {NULL}]
FetchedLists == SeqsUpTo(FetchedRecords, MaxFetched)

\* ------------------------------------------------------- the git history
Branches == {"main", "dev"}
BAD == "\\xff"                      \* a byte that does not decode as UTF-8

\* Commits of the upstream repository, oldest first, per branch.
History ==
    [b \in Branches |-> IF b = "main" THEN <<"a1", "b2", "d4">> ELSE <<"a1", "c3">>]

Hexshas == {"a1", "b2", "c3", "d4"}

\* commit.author.name and commit.authored_datetime.timestamp()
AuthorOf(sha) == IF sha = "b2" THEN "bob" ELSE "alice"
AuthoredOf(sha) ==
    IF sha = "a1" THEN 10 ELSE IF sha = "b2" THEN 20 ELSE IF sha = "c3" THEN 15 ELSE 30

\* commit.tree.traverse(): every object below the commit's tree.
TreeOf(sha) ==
    IF sha = "a1" THEN
        << [type |-> "tree", data |-> <<>>],
           [type |-> "blob",
            data |-> <<"T","O","D","O","("," ","f","i","x","\n","T","O","D","O","(","l">>] >>
    ELSE IF sha = "b2" THEN
        << [type |-> "blob", data |-> <<"T","O",BAD,"D","O","(">>],
           [type |-> "blob", data |-> <<"T","O","D","O">>] >>
    ELSE IF sha = "d4" THEN
        << [type |-> "blob", data |-> <<"t","o","d","o","(">>] >>
    ELSE
        << [type |-> "blob",
            data |-> <<"T","O","D","O","(","T","O","D","O","(","T","O","D","O">>],
           [type |-> "tree", data |-> <<"T","O","D","O","(">>],
           [type |-> "blob", data |-> <<"(","T","O","D","O","(">>] >>

MARKER == <<"T","O","D","O","(">>

\* bytes.decode(errors="ignore"): undecodable bytes are dropped.
Decode(bytes) == SelectSeq(bytes, LAMBDA c : c # BAD)

\* str.count(sub): non-overlapping occurrences, scanning left to right.
RECURSIVE CountFrom(_, _, _)
CountFrom(s, sub, p) ==
    IF p + Len(sub) - 1 > Len(s) THEN 0
    ELSE IF SubSeq(s, p, p + Len(sub) - 1) = sub
         THEN 1 + CountFrom(s, sub, p + Len(sub))
         ELSE CountFrom(s, sub, p + 1)

Count(s, sub) == CountFrom(s, sub, 1)

\* The inner loop of log_commits: TODO( occurrences over the blobs of a tree.
RECURSIVE TodoCountOf(_)
TodoCountOf(entries) ==
    IF entries = <<>> THEN 0
    ELSE LET blob == entries[Len(entries)]
             rest == SubSeq(entries, 1, Len(entries) - 1)
         IN  TodoCountOf(rest)
               + (IF blob.type = "blob" THEN Count(Decode(blob.data), MARKER) ELSE 0)

RECURSIVE Reverse(_)
Reverse(s) == IF s = <<>> THEN <<>> ELSE Append(Reverse(Tail(s)), Head(s))

\* repo.iter_commits(branch): newest first, from the local head of the branch.
IterCommits(heads, b) == Reverse(SubSeq(History[b], 1, heads[b]))

\* ------------------------------------------------------------ dictionaries
EmptyDict == [k \in {} |-> 0]
DictPut(d, key, v) == [k \in DOMAIN d \cup {key} |-> IF k = key THEN v ELSE d[k]]

\* json.dumps of a dict: the text lists one "key": value member per entry.
JsonDumps(d) == {<<k, d[k]>> : k \in DOMAIN d}

\* json.loads of an object text: for a repeated key the parser keeps one member.
JsonLoads(text) ==
    [k \in {m[1] : m \in text} |-> (CHOOSE m \in text : m[1] = k)[2]]

NoFile == [exists |-> FALSE, text |-> {}]
FileKeys(f) == {m[1] : m \in f.text}

\* ------------------------------------------------------------------ state
VARIABLES
    pc,                     \* position of the process in main()
    runs,                   \* number of processes started so far
    args,                   \* parsed command line: branch, no_download
    ISSUE_DATA_FILE,        \* content of data/issues.json
    heads,                  \* data/repo: length of each local branch
    checked_out,            \* data/repo: the branch in the working copy
    TODO_CACHE_FILE,        \* data/todo_cache.json
    TODO_CACHE,             \* the module-level dict
    issues_data,            \* log_issues: the decoded JSON list
    issues,                 \* log_issues: Issue objects built so far
    created_closed_events,  \* log_issues: the sorted (time, delta) list
    ev,                     \* log_issues: events processed by the scan
    num_open, num_total, num_closed,
    all_commits,            \* log_commits: commits oldest first
    ci,                     \* log_commits: commits processed
    commit_count_per_author,
    rr_log,                 \* what the Telemetry Sink received, in order
    file_at_start,          \* history: TODO_CACHE_FILE when the process started
    traversals,             \* history: commit trees traversed by this process
    first_written,          \* history: first count ever stored per commit
    cold,                   \* history: load_cache left TODO_CACHE empty
    prev_run                \* history: the previous process

files == <<ISSUE_DATA_FILE, heads, checked_out, TODO_CACHE_FILE>>
issue_locals == <<issues_data, issues, created_closed_events, ev,
                  num_open, num_total, num_closed>>
commit_locals == <<all_commits, ci, commit_count_per_author>>
history == <<file_at_start, traversals, first_written, cold, prev_run>>
vars == <<pc, runs, args, files, TODO_CACHE, issue_locals, commit_locals,
          rr_log, history>>

LogEntry(path, key, time, value) ==
    [path |-> path, key |-> key, time |-> time, value |-> value]

PlotPaths == {"plot/open", "plot/total", "plot/closed"}

\* The entries of the log on the given paths, in emission order.
Emitted(paths) == SelectSeq(rr_log, LAMBDA e : e.path \in paths)

\* ------------------------------------------------------- Issue (l.113-146)
\* Variant: a missing createdAt is tolerated with the epoch as default.
from_json_tolerant(obj) ==
    [raised |-> FALSE,
     created_at |-> IF obj.createdAt = NULL THEN [min |-> 0] ELSE obj.createdAt,
     closed_at |-> obj.closedAt]

\* Issue.from_json: fromisoformat(None) raises TypeError.
from_json(obj) ==
    IF obj.createdAt = NULL
    THEN [raised |-> TRUE]
    ELSE [raised |-> FALSE, created_at |-> obj.createdAt, closed_at |-> obj.closedAt]

created_at_timestamp(issue) == Timestamp(issue.created_at)

closed_at_timestamp(issue) ==
    IF issue.closed_at = NULL THEN NULL ELSE [ts |-> Timestamp(issue.closed_at)]

\* ---------------------------------------------- the event list (l.179-184)
\* A (time, delta) tuple; `issue` is the position of the issue the tuple
\* object was built from, which the sort never looks at.
Event(time, delta, n) == [time |-> time, delta |-> delta, issue |-> n]

RECURSIVE CreationEvents(_)
CreationEvents(iss) ==
    IF iss = <<>> THEN <<>>
    ELSE Append(CreationEvents(SubSeq(iss, 1, Len(iss) - 1)),
                Event(created_at_timestamp(iss[Len(iss)]), 1, Len(iss)))

RECURSIVE ClosureEvents(_)
ClosureEvents(iss) ==
    IF iss = <<>> THEN <<>>
    ELSE LET rest == ClosureEvents(SubSeq(iss, 1, Len(iss) - 1))
             closed == closed_at_timestamp(iss[Len(iss)])
         IN  IF closed # NULL THEN Append(rest, Event(closed.ts, -1, Len(iss)))
             ELSE rest

\* Variant: the filter tests the timestamp's truth value, so 0.0 is dropped.
CreatedClosedEventsTruthy(iss) ==
    CreationEvents(iss) \o SelectSeq(ClosureEvents(iss), LAMBDA e : e.time # 0)

\* Variant: the closure events are appended first.
CreatedClosedEventsClosuresFirst(iss) == ClosureEvents(iss) \o CreationEvents(iss)

\* Variant: a closure earlier than its issue's creation is rejected.
CreatedClosedEventsValidated(iss) ==
    CreationEvents(iss) \o
    SelectSeq(ClosureEvents(iss),
              LAMBDA e : e.time >= created_at_timestamp(iss[e.issue]))

CreatedClosedEvents(iss) == CreationEvents(iss) \o ClosureEvents(iss)

\* list.sort(key=lambda x: x[0]): stable, compares the timestamps only.
InsertByTime(sorted, e) ==
    LET k == Cardinality({p \in 1..Len(sorted) : sorted[p].time <= e.time})
    IN  SubSeq(sorted, 1, k) \o <<e>> \o SubSeq(sorted, k + 1, Len(sorted))

\* Variant: list.sort() without key, comparing the whole (time, delta) tuples.
InsertByTuple(sorted, e) ==
    LET k == Cardinality({p \in 1..Len(sorted) :
                 \/ sorted[p].time < e.time
                 \/ sorted[p].time = e.time /\ sorted[p].delta <= e.delta})
    IN  SubSeq(sorted, 1, k) \o <<e>> \o SubSeq(sorted, k + 1, Len(sorted))

RECURSIVE SortByTuple(_)
SortByTuple(s) ==
    IF s = <<>> THEN <<>>
    ELSE InsertByTuple(SortByTuple(SubSeq(s, 1, Len(s) - 1)), s[Len(s)])

\* Variant: the list is left in construction order.
NotSorted(s) == s

RECURSIVE SortByTime(_)
SortByTime(s) ==
    IF s = <<>> THEN <<>>
    ELSE InsertByTime(SortByTime(SubSeq(s, 1, Len(s) - 1)), s[Len(s)])

\* Variant: num_total is bumped for every event, not only for delta == 1.
StepCountersAlwaysTotal(c, delta) ==
    [open   |-> c.open + delta,
     total  |-> c.total + 1,
     closed |-> IF delta = -1 THEN c.closed + 1 ELSE c.closed]

\* One iteration of the scan (l.190-202): the counters after the event.
StepCounters(c, delta) ==
    [open   |-> c.open + delta,
     total  |-> IF delta = 1 THEN c.total + 1 ELSE c.total,
     closed |-> IF delta = 1 THEN c.closed
                ELSE IF delta = -1 THEN c.closed + 1 ELSE c.closed]

\* ------------------------------------------------------------------- Init
NoRun == [completed |-> FALSE, cold |-> FALSE, commits |-> <<>>, todos |-> <<>>]

\* What a fresh process shares with every other: the module-level code ran.
Fresh ==
    /\ runs = 1
    /\ heads \in [Branches -> {1}]
    /\ checked_out = "main"
    /\ TODO_CACHE_FILE = NoFile
    /\ TODO_CACHE = EmptyDict
    /\ issues_data = <<>>
    /\ issues = <<>>
    /\ created_closed_events = <<>>
    /\ ev = 0
    /\ num_open = 0
    /\ num_total = 0
    /\ num_closed = 0
    /\ all_commits = <<>>
    /\ ci = 0
    /\ commit_count_per_author = EmptyDict
    /\ rr_log = <<>>
    /\ file_at_start = NoFile
    /\ traversals = 0
    /\ first_written = EmptyDict
    /\ cold = FALSE
    /\ prev_run = NoRun

\* A process at the start of main(), before any run wrote the cache file.
Init ==
    /\ pc = "main"
    /\ args \in [branch : Branches, no_download : BOOLEAN]
    /\ ISSUE_DATA_FILE \in FetchedLists
    /\ Fresh

\* A process about to call log_issues() on a downloaded issue list.
InitIssues ==
    /\ pc = "log_issues"
    /\ args = [branch |-> "main", no_download |-> TRUE]
    /\ ISSUE_DATA_FILE \in IssueLists
    /\ Fresh

\* ----------------------------------------------------------- main (l.233)
\* download_issue_data: gh writes the issue list it fetched.
download_issue_data ==
    /\ pc = "main"
    /\ ~args.no_download
    /\ ISSUE_DATA_FILE' \in FetchedLists
    /\ pc' = "download_commit_data"
    /\ UNCHANGED <<runs, args, heads, checked_out, TODO_CACHE_FILE, TODO_CACHE,
                   issue_locals, commit_locals, rr_log, history>>

\* subprocess.run(check=True) raises CalledProcessError.
download_issue_data_raise ==
    /\ pc = "main"
    /\ ~args.no_download
    /\ pc' = "aborted"
    /\ UNCHANGED <<runs, args, files, TODO_CACHE, issue_locals, commit_locals,
                   rr_log, history>>

\* download_commit_data: pull advances the checked-out branch, then the
\* requested branch is checked out.
download_commit_data ==
    /\ pc = "download_commit_data"
    /\ \E n \in heads[checked_out]..Len(History[checked_out]) :
           heads' = [heads EXCEPT ![checked_out] = n]
    /\ checked_out' = args.branch
    /\ pc' = "load_cache"
    /\ UNCHANGED <<runs, args, ISSUE_DATA_FILE, TODO_CACHE_FILE, TODO_CACHE,
                   issue_locals, commit_locals, rr_log, history>>

\* fetch or pull fails (network): GitCommandError.
download_commit_data_raise ==
    /\ pc = "download_commit_data"
    /\ pc' = "aborted"
    /\ UNCHANGED <<runs, args, files, TODO_CACHE, issue_locals, commit_locals,
                   rr_log, history>>

no_download ==
    /\ pc = "main"
    /\ args.no_download
    /\ pc' = "load_cache"
    /\ UNCHANGED <<runs, args, files, TODO_CACHE, issue_locals, commit_locals,
                   rr_log, history>>

\* Variant: without the global statement the assignment binds a local.
LoadedCacheLocal(file, cache) == cache

\* load_cache (l.22-25): what TODO_CACHE is bound to afterwards.
LoadedCache(file, cache) == IF file.exists THEN JsonLoads(file.text) ELSE cache

load_cache ==
    /\ pc = "load_cache"
    /\ TODO_CACHE' = LoadedCache(TODO_CACHE_FILE, TODO_CACHE)
    /\ cold' = (DOMAIN LoadedCache(TODO_CACHE_FILE, TODO_CACHE) = {})
    /\ pc' = "log_issues"
    /\ UNCHANGED <<runs, args, files, issue_locals, commit_locals, rr_log,
                   file_at_start, traversals, first_written, prev_run>>

\* ---------------------------------------------------- log_issues (l.159)
log_issues_read ==
    /\ pc = "log_issues"
    /\ issues_data' = ISSUE_DATA_FILE
    /\ issues' = <<>>
    /\ pc' = "decode"
    /\ UNCHANGED <<runs, args, files, TODO_CACHE, created_closed_events, ev,
                   num_open, num_total, num_closed, commit_locals, rr_log, history>>

\* One iteration of the loop of l.165-175.
log_issues_decode ==
    /\ pc = "decode"
    /\ Len(issues) < Len(issues_data)
    /\ LET n == Len(issues) + 1
           issue == from_json(issues_data[n])
       IN  /\ ~issue.raised
           /\ rr_log' = Append(rr_log,
                  LogEntry("issues", "", created_at_timestamp(issue), n))
           /\ issues' = Append(issues, issue)
    /\ UNCHANGED <<pc, runs, args, files, TODO_CACHE, issues_data,
                   created_closed_events, ev, num_open, num_total, num_closed,
                   commit_locals, history>>

log_issues_decode_raise ==
    /\ pc = "decode"
    /\ Len(issues) < Len(issues_data)
    /\ from_json(issues_data[Len(issues) + 1]).raised
    /\ pc' = "aborted"
    /\ UNCHANGED <<runs, args, files, TODO_CACHE, issue_locals, commit_locals,
                   rr_log, history>>

\* l.179-187: build and sort the events, zero the counters.
log_issues_sort ==
    /\ pc = "decode"
    /\ Len(issues) = Len(issues_data)
    /\ created_closed_events' = SortByTime(CreatedClosedEvents(issues))
    /\ ev' = 0
    /\ num_open' = 0
    /\ num_total' = 0
    /\ num_closed' = 0
    /\ pc' = "scan"
    /\ UNCHANGED <<runs, args, files, TODO_CACHE, issues_data, issues,
                   commit_locals, rr_log, history>>

\* One iteration of the loop of l.188-202.
log_issues_scan ==
    /\ pc = "scan"
    /\ ev < Len(created_closed_events)
    /\ LET e == created_closed_events[ev + 1]
           c == StepCounters([open |-> num_open, total |-> num_total,
                              closed |-> num_closed], e.delta)
       IN  /\ num_open' = c.open
           /\ num_total' = c.total
           /\ num_closed' = c.closed
           /\ rr_log' = rr_log \o
                  << LogEntry("plot/open", "", e.time, c.open) >> \o
                  (IF e.delta = 1
                   THEN << LogEntry("plot/total", "", e.time, c.total) >>
                   ELSE IF e.delta = -1
                        THEN << LogEntry("plot/closed", "", e.time, c.closed) >>
                        ELSE << >>)
    /\ ev' = ev + 1
    /\ UNCHANGED <<pc, runs, args, files, TODO_CACHE, issues_data, issues,
                   created_closed_events, commit_locals, history>>

\* --------------------------------------------------- log_commits (l.76)
log_commits_begin ==
    /\ pc = "scan"
    /\ ev = Len(created_closed_events)
    /\ all_commits' = Reverse(IterCommits(heads, args.branch))
    /\ ci' = 0
    /\ commit_count_per_author' = EmptyDict
    /\ pc' = "commits"
    /\ UNCHANGED <<runs, args, files, TODO_CACHE, issue_locals, rr_log, history>>

\* l.97-110: what one iteration logs once todo_count is known.
CommitLog(sha, i, todo_count, authors) ==
    << LogEntry("commit", sha, AuthoredOf(sha), 0),
       LogEntry("plot/commits/todos", "", AuthoredOf(sha), todo_count),
       LogEntry("plot/commits/count", "", AuthoredOf(sha), i),
       LogEntry("plot/commits/authors", "alice", AuthoredOf(sha),
                IF "alice" \in DOMAIN authors THEN authors["alice"] ELSE 0),
       LogEntry("plot/commits/authors", "bob", AuthoredOf(sha),
                IF "bob" \in DOMAIN authors THEN authors["bob"] ELSE 0) >>

BumpAuthor(authors, name) ==
    DictPut(authors, name, IF name \in DOMAIN authors THEN authors[name] + 1 ELSE 1)

\* l.86-87: the commit is in the cache.
log_commits_hit ==
    /\ pc = "commits"
    /\ ci < Len(all_commits)
    /\ LET sha == all_commits[ci + 1]
           authors == BumpAuthor(commit_count_per_author, AuthorOf(sha))
       IN  /\ sha \in DOMAIN TODO_CACHE
           /\ commit_count_per_author' = authors
           /\ rr_log' = rr_log \o CommitLog(sha, ci, TODO_CACHE[sha], authors)
    /\ ci' = ci + 1
    /\ UNCHANGED <<pc, runs, args, files, TODO_CACHE, issue_locals, all_commits,
                   history>>

\* Variant: the cache file is rewritten as soon as a count is stored.
log_commits_miss_flush ==
    /\ pc = "commits"
    /\ ci < Len(all_commits)
    /\ LET sha == all_commits[ci + 1]
           todo_count == TodoCountOf(TreeOf(sha))
           authors == BumpAuthor(commit_count_per_author, AuthorOf(sha))
       IN  /\ sha \notin DOMAIN TODO_CACHE
           /\ TODO_CACHE' = DictPut(TODO_CACHE, sha, todo_count)
           /\ TODO_CACHE_FILE' = [exists |-> TRUE,
                                  text |-> JsonDumps(DictPut(TODO_CACHE, sha, todo_count))]
           /\ first_written' = IF sha \in DOMAIN first_written THEN first_written
                               ELSE DictPut(first_written, sha, todo_count)
           /\ commit_count_per_author' = authors
           /\ rr_log' = rr_log \o CommitLog(sha, ci, todo_count, authors)
    /\ ci' = ci + 1
    /\ traversals' = traversals + 1
    /\ UNCHANGED <<pc, runs, args, ISSUE_DATA_FILE, heads, checked_out,
                   issue_locals, all_commits, file_at_start, cold, prev_run>>

\* l.88-95: the tree is traversed and the count stored.
log_commits_miss ==
    /\ pc = "commits"
    /\ ci < Len(all_commits)
    /\ LET sha == all_commits[ci + 1]
           todo_count == TodoCountOf(TreeOf(sha))
           authors == BumpAuthor(commit_count_per_author, AuthorOf(sha))
       IN  /\ sha \notin DOMAIN TODO_CACHE
           /\ TODO_CACHE' = DictPut(TODO_CACHE, sha, todo_count)
           /\ first_written' = IF sha \in DOMAIN first_written THEN first_written
                               ELSE DictPut(first_written, sha, todo_count)
           /\ commit_count_per_author' = authors
           /\ rr_log' = rr_log \o CommitLog(sha, ci, todo_count, authors)
    /\ ci' = ci + 1
    /\ traversals' = traversals + 1
    /\ UNCHANGED <<pc, runs, args, files, issue_locals, all_commits,
                   file_at_start, cold, prev_run>>

\* l.90-93: a blob of the tree cannot be read.
log_commits_raise ==
    /\ pc = "commits"
    /\ ci < Len(all_commits)
    /\ all_commits[ci + 1] \notin DOMAIN TODO_CACHE
    /\ traversals' = traversals + 1
    /\ pc' = "aborted"
    /\ UNCHANGED <<runs, args, files, TODO_CACHE, issue_locals, commit_locals,
                   rr_log, file_at_start, first_written, cold, prev_run>>

\* save_cache (l.28-30), reached when log_commits has returned.
save_cache ==
    /\ pc = "commits"
    /\ ci = Len(all_commits)
    /\ TODO_CACHE_FILE' = [exists |-> TRUE, text |-> JsonDumps(TODO_CACHE)]
    /\ pc' = "done"
    /\ UNCHANGED <<runs, args, ISSUE_DATA_FILE, heads, checked_out, TODO_CACHE,
                   issue_locals, commit_locals, rr_log, history>>

\* The todo counts logged by this process, in order.
TodosLogged == [p \in 1..Len(Emitted({"plot/commits/todos"})) |->
                   Emitted({"plot/commits/todos"})[p].value]

\* The process has ended; the script is started again (l.19: TODO_CACHE = {}).
restart ==
    /\ pc \in {"done", "aborted"}
    /\ runs < MaxRuns
    /\ runs' = runs + 1
    /\ args' \in [branch : Branches, no_download : BOOLEAN]
    /\ pc' = "main"
    /\ TODO_CACHE' = EmptyDict
    /\ issues_data' = <<>>
    /\ issues' = <<>>
    /\ created_closed_events' = <<>>
    /\ ev' = 0
    /\ num_open' = 0
    /\ num_total' = 0
    /\ num_closed' = 0
    /\ all_commits' = <<>>
    /\ ci' = 0
    /\ commit_count_per_author' = EmptyDict
    /\ rr_log' = <<>>
    /\ file_at_start' = TODO_CACHE_FILE
    /\ traversals' = 0
    /\ cold' = FALSE
    /\ prev_run' = [completed |-> pc = "done",
                    cold |-> cold,
                    commits |-> all_commits,
                    todos |-> TodosLogged]
    /\ UNCHANGED <<files, first_written>>

Next ==
    \/ download_issue_data
    \/ download_issue_data_raise
    \/ download_commit_data
    \/ download_commit_data_raise
    \/ no_download
    \/ load_cache
    \/ log_issues_read
    \/ log_issues_decode
    \/ log_issues_decode_raise
    \/ log_issues_sort
    \/ log_issues_scan
    \/ log_commits_begin
    \/ log_commits_hit
    \/ log_commits_miss
    \/ log_commits_raise
    \/ save_cache
    \/ restart

Spec == Init /\ [][Next]_vars

\* log_issues() alone, over longer issue lists.
NextIssues ==
    \/ log_issues_read
    \/ log_issues_decode
    \/ log_issues_decode_raise
    \/ log_issues_sort
    \/ log_issues_scan

SpecIssues == InitIssues /\ [][NextIssues]_vars

\* ============================================================ properties
Closed(iss) == {n \in 1..Len(iss) : iss[n].closed_at # NULL}
StillOpen(iss) == {n \in 1..Len(iss) : iss[n].closed_at = NULL}
\* Issues whose closed_at is earlier than their created_at.
ClosedBeforeCreated(iss) ==
    {n \in Closed(iss) : Timestamp(iss[n].closed_at) < Timestamp(iss[n].created_at)}
ScanFinished == pc = "scan" /\ ev = Len(created_closed_events)
NonDecreasing(entries) ==
    \A p, q \in 1..Len(entries) : p < q => entries[p].time <= entries[q].time

\* C1: after every processed event of the scan in log_issues, whatever the
\* issue list, num_open equals num_total minus num_closed.
C1_OpenIsTotalMinusClosed ==
    pc = "scan" => num_open = num_total - num_closed

\* An event in the middle of a scan, after closures have been counted.
C1_Witness ==
    /\ pc = "scan"
    /\ 0 < ev /\ ev < Len(created_closed_events)
    /\ num_closed > 0 /\ num_open > 0

\* C2: when the scan has processed the last event, num_total is the number
\* of issues, num_closed the number of issues with a closed_at, and num_open
\* the number of issues without one.
C2_FinalCounts ==
    ScanFinished =>
        /\ num_total = Len(issues)
        /\ num_closed = Cardinality(Closed(issues))
        /\ num_open = Cardinality(StillOpen(issues))

\* A finished scan over closed and open issues, one closed at the epoch.
C2_Witness ==
    /\ ScanFinished
    /\ Len(issues) = MaxIssues
    /\ StillOpen(issues) # {}
    /\ \E n \in Closed(issues) : Timestamp(issues[n].closed_at) = 0

\* C3: the counter snapshots (plot/open, plot/total, plot/closed) are logged
\* at non-decreasing time values, for any input order of the issues.
C3_SnapshotsNonDecreasing == NonDecreasing(Emitted(PlotPaths))

\* A finished scan over issues that were not listed in creation order.
C3_Witness ==
    /\ ScanFinished
    /\ Len(Emitted(PlotPaths)) >= 4
    /\ \E m, n \in 1..Len(issues) :
           m < n /\ Timestamp(issues[m].created_at) > Timestamp(issues[n].created_at)

\* C6: if any record of the input has a null createdAt, that record is never
\* turned into an Issue and no counter snapshot is logged: control never
\* gets past the decoding loop, wherever the record stands in the list.
C6_MalformedAborts ==
    \A n \in 1..Len(issues_data) :
        issues_data[n].createdAt = NULL =>
            /\ Len(issues) < n
            /\ pc \in {"decode", "aborted"}
            /\ Emitted(PlotPaths) = <<>>

\* The run aborted on a malformed record that was not the first one.
C6_Witness ==
    /\ pc = "aborted"
    /\ Len(issues) >= 1
    /\ Len(rr_log) >= 1
    /\ issues_data[Len(issues) + 1].createdAt = NULL

\* C8 as stated: every issue list holding an issue closed before it was
\* created has a processed event after which num_open is negative.
C8_AlwaysNegative ==
    (ScanFinished /\ ClosedBeforeCreated(issues) # {}) =>
        \E p \in 1..Len(Emitted({"plot/open"})) : Emitted({"plot/open"})[p].value < 0

\* C8, amended: an issue closed before it was created is passed through, its
\* closure event ahead of its creation event, and num_open is negative after
\* some processed event whenever no issue of the list was created at or
\* before that closed_at.
C8_NegativeWhenNoneOpen ==
    ScanFinished =>
        \A n \in ClosedBeforeCreated(issues) :
            /\ \E p, q \in 1..Len(created_closed_events) :
                   /\ p < q
                   /\ created_closed_events[p] =
                          Event(Timestamp(issues[n].closed_at), -1, n)
                   /\ created_closed_events[q] =
                          Event(Timestamp(issues[n].created_at), 1, n)
            /\ (\A m \in 1..Len(issues) :
                    Timestamp(issues[m].created_at) > Timestamp(issues[n].closed_at))
               => \E p \in 1..Len(Emitted({"plot/open"})) :
                      Emitted({"plot/open"})[p].value < 0

\* A finished scan of several issues, one closed before any was created.
C8_Witness ==
    /\ ScanFinished
    /\ Len(issues) >= 2
    /\ \E n \in ClosedBeforeCreated(issues) :
           \A m \in 1..Len(issues) :
               Timestamp(issues[m].created_at) > Timestamp(issues[n].closed_at)
    /\ num_open > 0

\* C9: events sharing a timestamp are processed in append order: among them
\* every +1 event comes before every -1 event, events of the same kind keep
\* the order of the issue list, and the scan takes the list front to back.
C9_TiesInAppendOrder ==
    pc = "scan" =>
        /\ \A p, q \in 1..Len(created_closed_events) :
               (p < q /\ created_closed_events[p].time = created_closed_events[q].time) =>
                   /\ ~(created_closed_events[p].delta = -1
                        /\ created_closed_events[q].delta = 1)
                   /\ created_closed_events[p].delta = created_closed_events[q].delta
                          => created_closed_events[p].issue < created_closed_events[q].issue
        /\ Len(Emitted({"plot/open"})) = ev
        /\ \A p \in 1..ev :
               Emitted({"plot/open"})[p].time = created_closed_events[p].time

\* A finished scan with a creation and a closure at one timestamp, and two
\* creations at one timestamp.
C9_Witness ==
    /\ ScanFinished
    /\ \E p, q \in 1..Len(created_closed_events) :
           /\ created_closed_events[p].time = created_closed_events[q].time
           /\ created_closed_events[p].delta = 1
           /\ created_closed_events[q].delta = -1
           /\ created_closed_events[p].issue > created_closed_events[q].issue
    /\ \E p, q \in 1..Len(created_closed_events) :
           /\ p < q
           /\ created_closed_events[p].time = created_closed_events[q].time
           /\ created_closed_events[p].delta = 1
           /\ created_closed_events[q].delta = 1

\* C10: if no issue is closed before it was created (closed at the creation
\* instant included), num_open is never negative after a processed event.
C10_NeverNegative ==
    (pc = "scan" /\ ClosedBeforeCreated(issues) = {}) =>
        /\ num_open >= 0
        /\ \A p \in 1..Len(Emitted({"plot/open"})) : Emitted({"plot/open"})[p].value >= 0

\* A finished scan with an issue closed at its creation instant, which is
\* also the instant another issue was created or closed.
C10_Witness ==
    /\ ScanFinished
    /\ ClosedBeforeCreated(issues) = {}
    /\ \E n \in Closed(issues) :
           /\ issues[n].closed_at = issues[n].created_at
           /\ \E m \in 1..Len(issues) :
                  m # n /\ (issues[m].created_at = issues[n].created_at
                            \/ issues[m].closed_at = issues[n].created_at)

\* C4: a run over the commit sequence of the previous, cold-cache run logs
\* the same TODO count for every commit and traverses no tree.
C4_WarmRerun ==
    (/\ pc \in {"commits", "done"}
     /\ prev_run.completed /\ prev_run.cold
     /\ all_commits = prev_run.commits) =>
        /\ traversals = 0
        /\ TodosLogged = SubSeq(prev_run.todos, 1, ci)
        /\ pc = "done" => TodosLogged = prev_run.todos

\* The second run over two commits has completed.
C4_Witness ==
    /\ pc = "done"
    /\ prev_run.completed /\ prev_run.cold
    /\ all_commits = prev_run.commits
    /\ Len(all_commits) >= 2
    /\ Len(TodosLogged) = Len(all_commits)

\* C5: no step of load_cache, log_commits or save_cache changes or removes
\* an entry of TODO_CACHE; the keys of the cache file only grow and keep
\* their values; and across runs a key always holds the count first written.
C5_EntriesImmutable ==
    /\ [][/\ pc \in {"load_cache", "commits"} =>
               \A k \in DOMAIN TODO_CACHE :
                   k \in DOMAIN TODO_CACHE' /\ TODO_CACHE'[k] = TODO_CACHE[k]
          /\ \A k \in FileKeys(TODO_CACHE_FILE) :
                 /\ k \in FileKeys(TODO_CACHE_FILE')
                 /\ JsonLoads(TODO_CACHE_FILE'.text)[k] = JsonLoads(TODO_CACHE_FILE.text)[k]
         ]_vars
    /\ [](/\ \A k \in DOMAIN TODO_CACHE : TODO_CACHE[k] = first_written[k]
          /\ \A k \in FileKeys(TODO_CACHE_FILE) :
                 JsonLoads(TODO_CACHE_FILE.text)[k] = first_written[k])

\* A later run on the other branch has added a key to a cache file written
\* by an earlier run.
C5_Witness ==
    /\ pc = "done"
    /\ runs > 1
    /\ FileKeys(file_at_start) # {}
    /\ FileKeys(file_at_start) # FileKeys(TODO_CACHE_FILE)
    /\ "c3" \in FileKeys(TODO_CACHE_FILE)

\* C7: the cache file is written only by save_cache at the end of a run: in
\* every other state, aborted ones included, it is as it was when the
\* process started, and the counts an aborted run computed are not in it.
C7_FlushedOnlyAtShutdown ==
    /\ pc # "done" => TODO_CACHE_FILE = file_at_start
    /\ pc = "aborted" =>
           \A k \in DOMAIN TODO_CACHE :
               k \notin FileKeys(file_at_start) => k \notin FileKeys(TODO_CACHE_FILE)
    /\ pc = "main" => TODO_CACHE = EmptyDict
    /\ pc = "log_issues" => DOMAIN TODO_CACHE = FileKeys(TODO_CACHE_FILE)

\* A run aborted in log_commits after it had computed a count that the
\* existing cache file does not hold.
C7_Witness ==
    /\ pc = "aborted"
    /\ TODO_CACHE_FILE.exists
    /\ traversals > 1
    /\ \E k \in DOMAIN TODO_CACHE : k \notin FileKeys(TODO_CACHE_FILE)

====
